---- MODULE Spec2Model ----
(***************************************************************************)
(* ConversationViewer.groupMessages and its helpers (the viewer part of    *)
(* src/src/types.ts), as a state machine: one action per branch of the     *)
(* while loop of groupMessages.                                            *)
(*                                                                         *)
(* Object references are modelled by position: an entry reference is the   *)
(* 0-based index of the entry in `entries`, a content-item reference is    *)
(* the pair <<entry index, 1-based position in message.content>>.  Strings *)
(* built by template literals are modelled by the record of their parts.   *)
(***************************************************************************)
EXTENDS Integers, Sequences, FiniteSets, TLC

VARIABLES
  entries,            \* the argument of groupMessages
  i,                  \* the cursor of the while loop
  processedMessages,  \* the groups pushed so far
  pc,                 \* "loop" at the loop head, "done" after return, "thrown"
  fault,              \* a property of undefined was read
  emittedAt,          \* history: the cursor at which each group (by
                      \* parseString: each entry) was pushed
  out,                \* the value returned by a helper called on its own
  lines,              \* content.split('\n') in JsonlParser.parseString
  lineNo              \* the number of non-blank lines parseString has consumed

vars == <<entries, i, processedMessages, pc, fault, emittedAt, out, lines, lineNo>>

---------------------------------------------------------------------------
(* Bounds of the model.                                                    *)

\* most lines of a parsed file with several lines
MaxLines == 3
\* longest content array of a parsed line
MaxLineContent == 1

\* longest internalProcessing generateProcessingSummary is called on
MaxSummaryItems == 5
\* most subsequentToolResults generateProcessingSummary is called with
MaxSummaryResults == 2
\* largest assistantMessageCount generateProcessingSummary is called with
MaxAssistantCount == 2

\* longest message.content of the entry a helper is called on
MaxHelperContent == 3

\* longest conversation
MaxEntries == 3
\* longest message.content of an ordinary input entry
MaxPlainContent == 1
\* longest message.content of the (at most one) long entry of a conversation
MaxContent == 2

---------------------------------------------------------------------------
(* Data: MessageContent, Message, ConversationEntry.                       *)

\* value of an absent optional field / a failed lookup
Undefined == -1

\* the value of `out` before any helper has returned
NoResult == [fn |-> "", value |-> Undefined]

\* an absent timestamp (timestamp?: string)
NoTimestamp == "undefined"

Item(t, n, id) == [type |-> t, name |-> n, tool_use_id |-> id]

ItemKinds ==
  { Item("text", "", ""),
    Item("thinking", "", ""),
    Item("image", "", ""),
    Item("tool_use", "Bash", ""),
    Item("tool_use", "bash", ""),
    Item("tool_use", "Read", ""),
    Item("tool_result", "", "toolu_1"),
    Item("tool_result", "", "") }

\* the items of the entries the helpers are called on
HelperItemKinds == ItemKinds \cup { Item("tool_result", "", "toolu_2") }

Roles == {"user", "assistant"}

Contents(lo, hi) == UNION { [1..k -> ItemKinds] : k \in lo..hi }

Entry(r, c, s, t) ==
  [message |-> [role |-> r, content |-> c], isSidechain |-> s, timestamp |-> t]

\* entries as parseClaudeCodeEntry builds them: isSidechain and timestamp set
ClaudeCodeEntries ==
  { Entry(r, c, s, "2024-01-15T10:00:00Z") :
      r \in Roles, c \in Contents(0, MaxPlainContent), s \in BOOLEAN }

\* entries as parseLegacyEntry builds them: no isSidechain, optional timestamp
LegacyEntries ==
  { Entry(r, c, FALSE, t) :
      r \in Roles, c \in Contents(0, MaxPlainContent),
      t \in {NoTimestamp, "2024-01-15T10:00:00Z"} }

\* the entries the helpers are called on
HelperEntries ==
  { Entry(r, c, FALSE, "2024-01-15T10:00:00Z") :
      r \in Roles, c \in UNION { [1..k -> HelperItemKinds] : k \in 0..MaxHelperContent } }

\* entries with several content items
LongEntries ==
  { Entry(r, c, FALSE, "2024-01-15T10:00:00Z") :
      r \in Roles, c \in Contents(MaxPlainContent + 1, MaxContent) }

ShortEntries ==
  { Entry(r, c, FALSE, "2024-01-15T10:00:00Z") :
      r \in Roles, c \in Contents(1, MaxPlainContent) }

\* a conversation of n entries with the long entry l at position p, the
\* short entries s elsewhere
WithLong(n, p, l, s) == [k \in 1..n |-> IF k = p THEN l ELSE s[k]]

---------------------------------------------------------------------------
(* Array access.                                                           *)

length == Len(entries)

\* what reading .message of an out-of-range element never yields
NoEntry == Entry("undefined", <<>>, FALSE, NoTimestamp)

\* entries[k], k 0-based; undefined when out of range
At(k) == IF k >= 0 /\ k < length THEN entries[k + 1] ELSE NoEntry

\* the content item behind a reference
ItemOf(ref) == At(ref[1]).message.content[ref[2]]

ContentRefs(e) == [k \in 1..Len(At(e).message.content) |-> <<e, k>>]

---------------------------------------------------------------------------
(* Classifier helpers.                                                     *)

\* mutant: .some instead of .every
isToolResultMessageMut(entry) ==
  /\ entry.message.role = "user"
  /\ \E k \in 1..Len(entry.message.content) :
       entry.message.content[k].type = "tool_result"

isToolResultMessage(entry) ==
  /\ entry.message.role = "user"
  /\ \A k \in 1..Len(entry.message.content) :
       entry.message.content[k].type = "tool_result"

hasToolUsage(entry) ==
  /\ entry.message.role = "assistant"
  /\ \E k \in 1..Len(entry.message.content) :
       entry.message.content[k].type = "tool_use"

\* mutant: the name is compared without regard to case
isBashToolUseMut(content) ==
  content.type = "tool_use" /\ content.name \in {"Bash", "bash"}

isBashToolUse(content) == content.type = "tool_use" /\ content.name = "Bash"

\* mutant: the id has to be the one of the first tool call
isBashToolResultMut(entry) ==
  /\ isToolResultMessage(entry)
  /\ \E k \in 1..Len(entry.message.content) :
       /\ entry.message.content[k].type = "tool_result"
       /\ entry.message.content[k].tool_use_id = "toolu_1"

isBashToolResult(entry) ==
  /\ isToolResultMessage(entry)
  /\ \E k \in 1..Len(entry.message.content) :
       /\ entry.message.content[k].type = "tool_result"
       /\ entry.message.content[k].tool_use_id # ""

---------------------------------------------------------------------------
(* separateInternalProcessing.                                             *)

Max(S) == CHOOSE x \in S : \A y \in S : y <= x

\* mutant: the first text item is taken, not the last
lastTextContentMut(e) ==
  LET textContents ==
        { k \in 1..Len(At(e).message.content) :
            At(e).message.content[k].type = "text" }
  IN IF textContents # {}
       THEN CHOOSE x \in textContents : \A y \in textContents : x <= y
       ELSE 0

\* position of the last text item of entries[e], 0 for null
lastTextContent(e) ==
  LET textContents ==
        { k \in 1..Len(At(e).message.content) :
            At(e).message.content[k].type = "text" }
  IN IF textContents # {} THEN Max(textContents) ELSE 0

\* mutant: every Text item counts as internal processing
isInternalItemMut(ref) ==
  \/ ItemOf(ref).type = "tool_use"
  \/ ItemOf(ref).type = "thinking"
  \/ ItemOf(ref).type = "text"

isInternalItem(ref) ==
  \/ ItemOf(ref).type = "tool_use"
  \/ ItemOf(ref).type = "thinking"
  \/ (ItemOf(ref).type = "text" /\ ref[2] # lastTextContent(ref[1]))

\* mutant: only the last Text item is kept for the final response
separateInternalProcessingMut(e) ==
  [ internalProcessing |->
      SelectSeq(ContentRefs(e), LAMBDA ref : isInternalItem(ref)),
    finalResponse |->
      SelectSeq(ContentRefs(e), LAMBDA ref : ref[2] = lastTextContent(ref[1])) ]

separateInternalProcessing(e) ==
  [ internalProcessing |->
      SelectSeq(ContentRefs(e), LAMBDA ref : isInternalItem(ref)),
    finalResponse |->
      SelectSeq(ContentRefs(e), LAMBDA ref : ~isInternalItem(ref)) ]

---------------------------------------------------------------------------
(* generateProcessingSummary.  A summary is the sequence of its clauses    *)
(* (the parts joined by ", "); a clause is the record of the values its    *)
(* template literal interpolates.                                          *)

\* .slice(0, 3)
MaxShownTools == 3

\* mutant: the filter keeps nothing
CountTypeMut(items, t) == 0

CountType(items, t) ==
  Len(SelectSeq(items, LAMBDA ref : ItemOf(ref).type = t))

Clause(noun, count, tools, more) ==
  [noun |-> noun, count |-> count, tools |-> tools, more |-> more]

\* content.name || 'Unknown'
toolNames(internalProcessing) ==
  LET uses == SelectSeq(internalProcessing,
                        LAMBDA ref : ItemOf(ref).type = "tool_use")
  IN [k \in 1..Len(uses) |->
        IF ItemOf(uses[k]).name # "" THEN ItemOf(uses[k]).name ELSE "Unknown"]

\* keys of toolCountMap, in insertion order
RECURSIVE MapKeys(_, _)
MapKeys(names, keys) ==
  IF names = <<>> THEN keys
  ELSE IF \E k \in 1..Len(keys) : keys[k] = Head(names)
       THEN MapKeys(Tail(names), keys)
       ELSE MapKeys(Tail(names), Append(keys, Head(names)))

toolCountMap(names) ==
  LET keys == MapKeys(names, <<>>)
  IN [k \in 1..Len(keys) |->
        [name |-> keys[k],
         count |-> Cardinality({n \in 1..Len(names) : names[n] = keys[k]})]]

\* mutant: the count is always written
RenderToolMut(t) == [name |-> t.name, suffix |-> t.count]

\* count > 1 ? `${name}(${count})` : name; suffix 0 stands for no "(count)"
RenderTool(t) ==
  [name |-> t.name, suffix |-> IF t.count > 1 THEN t.count ELSE 0]

uniqueTools(map) ==
  [k \in 1..(IF Len(map) < MaxShownTools THEN Len(map) ELSE MaxShownTools) |->
     RenderTool(map[k])]

toolPart(internalProcessing) ==
  LET toolCount == CountType(internalProcessing, "tool_use")
      map == toolCountMap(toolNames(internalProcessing))
      shown == uniqueTools(map)
  IN Clause(IF toolCount > 1 THEN "tools" ELSE "tool", toolCount, shown,
            IF Len(shown) < Len(map) THEN Len(map) - Len(shown) ELSE 0)

\* mutant: the intermediate-text clause is pushed before the tool clause
generateProcessingSummaryMut(internalProcessing, subsequentToolResults, assistantMessageCount) ==
  LET toolCount == CountType(internalProcessing, "tool_use")
      thinkingCount == CountType(internalProcessing, "thinking")
      textCount == CountType(internalProcessing, "text")
      toolResultCount == Len(subsequentToolResults)
      parts ==
        (IF assistantMessageCount > 1
           THEN <<Clause("assistant messages", assistantMessageCount, <<>>, 0)>>
           ELSE <<>>)
        \o (IF thinkingCount > 0
              THEN <<Clause(IF thinkingCount > 1 THEN "thinking steps"
                            ELSE "thinking step", thinkingCount, <<>>, 0)>>
              ELSE <<>>)
        \o (IF textCount > 0
              THEN <<Clause(IF textCount > 1 THEN "intermediate responses"
                            ELSE "intermediate response", textCount, <<>>, 0)>>
              ELSE <<>>)
        \o (IF toolCount > 0 THEN <<toolPart(internalProcessing)>> ELSE <<>>)
        \o (IF toolResultCount > 0
              THEN <<Clause(IF toolResultCount > 1 THEN "results" ELSE "result",
                            toolResultCount, <<>>, 0)>>
              ELSE <<>>)
  IN IF Len(parts) > 0 THEN parts
     ELSE <<Clause("Processing steps", 0, <<>>, 0)>>

generateProcessingSummary(internalProcessing, subsequentToolResults, assistantMessageCount) ==
  LET toolCount == CountType(internalProcessing, "tool_use")
      thinkingCount == CountType(internalProcessing, "thinking")
      textCount == CountType(internalProcessing, "text")
      toolResultCount == Len(subsequentToolResults)
      parts ==
        (IF assistantMessageCount > 1
           THEN <<Clause("assistant messages", assistantMessageCount, <<>>, 0)>>
           ELSE <<>>)
        \o (IF thinkingCount > 0
              THEN <<Clause(IF thinkingCount > 1 THEN "thinking steps"
                            ELSE "thinking step", thinkingCount, <<>>, 0)>>
              ELSE <<>>)
        \o (IF toolCount > 0 THEN <<toolPart(internalProcessing)>> ELSE <<>>)
        \o (IF textCount > 0
              THEN <<Clause(IF textCount > 1 THEN "intermediate responses"
                            ELSE "intermediate response", textCount, <<>>, 0)>>
              ELSE <<>>)
        \o (IF toolResultCount > 0
              THEN <<Clause(IF toolResultCount > 1 THEN "results" ELSE "result",
                            toolResultCount, <<>>, 0)>>
              ELSE <<>>)
  IN IF Len(parts) > 0 THEN parts
     ELSE <<Clause("Processing steps", 0, <<>>, 0)>>

---------------------------------------------------------------------------
(* groupMessages: the pieces of one loop iteration.                        *)

\* a failed content.find
NoItem == <<Undefined, 0>>

\* entry.message.content.find(content => this.isBashToolUse(content))
bashToolUse(e) ==
  LET hits == { k \in 1..Len(At(e).message.content) :
                  isBashToolUse(At(e).message.content[k]) }
  IN IF hits # {} THEN <<e, CHOOSE k \in hits : \A h \in hits : k <= h>>
     ELSE NoItem

\* mutant: the range check i + 1 < entries.length is missing
bashOutputCheckMut(k) ==
  [ value |-> isBashToolResult(At(k + 1)), reads |-> {k + 1} ]

\* a && f(entries[k]): `value` is the result, `reads` the indices whose
\* element was dereferenced on the way
bashOutputCheck(k) ==
  [ value |-> k + 1 < length /\ isBashToolResult(At(k + 1)),
    reads |-> IF k + 1 < length THEN {k + 1} ELSE {} ]

\* mutant: the sidechain test is missing
userCommentCheckMut(nextIndex) ==
  [ value |-> /\ nextIndex < length
              /\ At(nextIndex).message.role = "user"
              /\ ~isToolResultMessage(At(nextIndex)),
    reads |-> IF nextIndex < length THEN {nextIndex} ELSE {} ]

userCommentCheck(nextIndex) ==
  [ value |-> /\ nextIndex < length
              /\ At(nextIndex).message.role = "user"
              /\ ~isToolResultMessage(At(nextIndex))
              /\ ~At(nextIndex).isSidechain,
    reads |-> IF nextIndex < length THEN {nextIndex} ELSE {} ]

\* mutant: the timestamp is copied without the || '' fallback
TimestampOrEmptyMut(t) == t

\* entry.timestamp || ''
TimestampOrEmpty(t) == IF t = NoTimestamp \/ t = "" THEN "" ELSE t

\* mutant: the loop stops after the entry at the cursor
collectEndMut(j) == j + 1

\* the inner while loop: the index at which collecting stops
RECURSIVE collectEnd(_)
collectEnd(j) ==
  IF j < length
    THEN IF At(j).message.role = "assistant" THEN collectEnd(j + 1)
         ELSE IF isToolResultMessage(At(j)) THEN collectEnd(j + 1)
         ELSE j
    ELSE j

\* the indices from..to-1 in order
Range(from, to) == [k \in 1..(to - from) |-> from + k - 1]

\* mutant: a sidechain entry after the first one is not collected
collectAssistantMessagesMut(from, to) ==
  SelectSeq(Range(from, to),
            LAMBDA e : At(e).message.role = "assistant"
                       /\ (e = from \/ ~At(e).isSidechain))

collectAssistantMessages(from, to) ==
  SelectSeq(Range(from, to), LAMBDA e : At(e).message.role = "assistant")

\* mutant: the last collected entry is not looked at
collectToolResultsMut(from, to) ==
  SelectSeq(Range(from, to - 1),
            LAMBDA e : At(e).message.role # "assistant"
                       /\ isToolResultMessage(At(e)))

\* mutant: the tool results are collected last first
collectToolResultsRevMut(from, to) ==
  LET found == SelectSeq(Range(from, to),
                         LAMBDA e : At(e).message.role # "assistant"
                                    /\ isToolResultMessage(At(e)))
  IN [k \in 1..Len(found) |-> found[Len(found) + 1 - k]]

collectToolResults(from, to) ==
  SelectSeq(Range(from, to),
            LAMBDA e : At(e).message.role # "assistant"
                       /\ isToolResultMessage(At(e)))

\* mutant: every entry's final response is kept, not only the last one's
extractStepMut(assistantMessages, index, acc) ==
  LET sep == separateInternalProcessing(assistantMessages[index + 1])
  IN [ allInternalProcessing |->
         acc.allInternalProcessing \o sep.internalProcessing,
       finalResponse |-> acc.finalResponse \o sep.finalResponse ]

\* the callback of assistantMessages.forEach, for position index (0-based)
extractStep(assistantMessages, index, acc) ==
  LET sep == separateInternalProcessing(assistantMessages[index + 1])
      pushed == acc.allInternalProcessing \o sep.internalProcessing
  IN IF index = Len(assistantMessages) - 1
       THEN [ allInternalProcessing |-> pushed,
              finalResponse |-> sep.finalResponse ]
       ELSE [ allInternalProcessing |->
                pushed \o SelectSeq(sep.finalResponse,
                            LAMBDA ref : ItemOf(ref).type = "text"),
              finalResponse |->
                acc.finalResponse \o SelectSeq(sep.finalResponse,
                            LAMBDA ref : ItemOf(ref).type # "text") ]

\* assistantMessages.forEach, from position index on
RECURSIVE extractAll(_, _, _)
extractAll(assistantMessages, index, acc) ==
  IF index >= Len(assistantMessages) THEN acc
  ELSE extractAll(assistantMessages, index + 1,
                  extractStep(assistantMessages, index, acc))

\* The array `finalResponse` is bound to while items are pushed on it:
\* Undefined stands for an array created by the call, an index k for the
\* array entries[k].message.content.
\* mutant: the accumulator starts as the first entry's own content array
finalResponseArrayMut(assistantMessages) == assistantMessages[1]

\* let finalResponse: MessageContent[] = []
finalResponseArray(assistantMessages) == Undefined

\* the items finalResponse.push(content) pushes, in order
RECURSIVE finalResponsePushes(_, _)
finalResponsePushes(assistantMessages, index) ==
  IF index >= Len(assistantMessages) - 1 THEN <<>>
  ELSE LET sep == separateInternalProcessing(assistantMessages[index + 1])
           kept == SelectSeq(sep.finalResponse, LAMBDA ref : ItemOf(ref).type # "text")
       IN [k \in 1..Len(kept) |-> ItemOf(kept[k])]
            \o finalResponsePushes(assistantMessages, index + 1)

\* `entries` once `items` have been pushed on the array `array`
afterPush(array, items) ==
  IF array = Undefined THEN entries
  ELSE [entries EXCEPT ![array + 1].message.content = @ \o items]

\* `entries` after the forEach of the run collected at k
runInput(k) ==
  LET assistantMessages == collectAssistantMessages(k, collectEnd(k))
  IN afterPush(finalResponseArray(assistantMessages),
               finalResponsePushes(assistantMessages, 0))

\* mutant: only the internal processing is looked at
isWorkflowMut(allInternalProcessing, assistantMessages) ==
  Len(allInternalProcessing) > 0

\* allInternalProcessing.length > 0 || assistantMessages.length > 1
isWorkflow(allInternalProcessing, assistantMessages) ==
  Len(allInternalProcessing) > 0 \/ Len(assistantMessages) > 1

\* assistantMessages[0]
firstAssistant(assistantMessages) ==
  IF Len(assistantMessages) > 0 THEN assistantMessages[1] ELSE Undefined

bashWorkflowGroup(k) ==
  [ type |-> "bash_workflow",
    bashInput |-> bashToolUse(k),
    bashOutput |-> k + 1,
    userComment |-> IF userCommentCheck(k + 2).value THEN k + 2 ELSE Undefined,
    timestamp |-> TimestampOrEmpty(At(k).timestamp) ]

\* mutant: nextIndex starts at i instead of i + 2
bashNextIndexMut(k) == IF userCommentCheck(k + 2).value THEN k + 3 ELSE k

bashNextIndex(k) == IF userCommentCheck(k + 2).value THEN k + 3 ELSE k + 2

runGroup(k) ==
  LET j == collectEnd(k)
      assistantMessages == collectAssistantMessages(k, j)
      toolResults == collectToolResults(k, j)
      ex == extractAll(assistantMessages, 0,
              [allInternalProcessing |-> <<>>, finalResponse |-> <<>>])
  IN IF isWorkflow(ex.allInternalProcessing, assistantMessages)
       THEN [ type |-> "processing_workflow",
              assistantMessages |-> assistantMessages,
              internalProcessing |-> ex.allInternalProcessing,
              finalResponse |-> ex.finalResponse,
              toolResults |-> toolResults,
              summary |-> generateProcessingSummary(ex.allInternalProcessing,
                            toolResults, Len(assistantMessages)),
              timestamp |->
                TimestampOrEmpty(At(firstAssistant(assistantMessages)).timestamp) ]
       ELSE [ type |-> "regular", entry |-> firstAssistant(assistantMessages) ]

\* mutant: the group wraps the entry after the cursor
regularGroupMut(k) == [type |-> "regular", entry |-> k + 1]

regularGroup(k) == [type |-> "regular", entry |-> k]

\* mutant: a Bash ToolUse alone starts a shell workflow
takesBashBranchMut(k) ==
  At(k).message.role = "assistant" /\ bashToolUse(k) # NoItem

\* is the bash branch taken at k
takesBashBranch(k) ==
  /\ At(k).message.role = "assistant"
  /\ bashToolUse(k) # NoItem
  /\ bashOutputCheck(k).value

---------------------------------------------------------------------------
(* groupMessages as a state machine.                                       *)

Init ==
  /\ \/ \E n \in 0..MaxEntries : entries \in [1..n -> ClaudeCodeEntries]
     \/ \E n \in 0..MaxEntries : entries \in [1..n -> LegacyEntries]
     \/ \E n \in 1..MaxEntries, l \in LongEntries : \E p \in 1..n :
          \E s \in [1..n -> ShortEntries] : entries = WithLong(n, p, l, s)
  /\ i = 0
  /\ processedMessages = <<>>
  /\ pc = "loop"
  /\ fault = FALSE
  /\ emittedAt = <<>>
  /\ out = NoResult
  /\ lines = <<>>
  /\ lineNo = 0

\* one iteration: it dereferenced the elements `reads`, pushed `group` and
\* set i to `next`, leaving `input` as the entries; reading a property of
\* undefined throws
Iterate(reads, group, next, input) ==
  IF \E k \in reads : k < 0 \/ k >= length
    THEN /\ fault' = TRUE
         /\ pc' = "thrown"
         /\ UNCHANGED <<entries, i, processedMessages, emittedAt, out, lines, lineNo>>
    ELSE /\ processedMessages' = Append(processedMessages, group)
         /\ emittedAt' = Append(emittedAt, i)
         /\ i' = next
         /\ entries' = input
         /\ UNCHANGED <<pc, fault, out, lines, lineNo>>

\* the conditions under which each branch of the loop body is the one taken
bashBranch == pc = "loop" /\ i < length /\ takesBashBranch(i)

runBranch ==
  /\ pc = "loop" /\ i < length
  /\ At(i).message.role = "assistant"
  /\ ~takesBashBranch(i)

passBranch == pc = "loop" /\ i < length /\ At(i).message.role # "assistant"

BashWorkflow ==
  /\ bashBranch
  /\ Iterate({i} \cup bashOutputCheck(i).reads \cup userCommentCheck(i + 2).reads,
             bashWorkflowGroup(i), bashNextIndex(i), entries)

RunCollection ==
  /\ runBranch
  /\ Iterate({i}
               \cup (IF bashToolUse(i) # NoItem THEN bashOutputCheck(i).reads ELSE {})
               \cup {k \in i..collectEnd(i) : k < length}
               \cup {firstAssistant(collectAssistantMessages(i, collectEnd(i)))},
             runGroup(i), collectEnd(i), runInput(i))

\* mutant: the cursor skips the entry after the one wrapped
PassThroughMut ==
  /\ passBranch
  /\ Iterate({i}, regularGroup(i), i + 2, entries)

PassThrough ==
  /\ passBranch
  /\ Iterate({i}, regularGroup(i), i + 1, entries)

Return ==
  /\ pc = "loop"
  /\ ~(i < length)
  /\ pc' = "done"
  /\ UNCHANGED <<entries, i, processedMessages, fault, emittedAt, out, lines, lineNo>>

Next == BashWorkflow \/ RunCollection \/ PassThrough \/ Return

Spec == Init /\ [][Next]_vars

---------------------------------------------------------------------------
(* The helpers called on their own: one entry is drawn, one helper is      *)
(* called on it and its return value is kept in `out`.                     *)

HelperInit ==
  /\ \E e \in HelperEntries : entries = <<e>>
  /\ i = 0
  /\ processedMessages = <<>>
  /\ pc = "call"
  /\ fault = FALSE
  /\ emittedAt = <<>>
  /\ out = NoResult
  /\ lines = <<>>
  /\ lineNo = 0

\* the call fn(entries[0]) returns value
Returns(fn, value) ==
  /\ pc = "call"
  /\ out' = [fn |-> fn, value |-> value]
  /\ pc' = "returned"
  /\ UNCHANGED <<entries, i, processedMessages, fault, emittedAt, lines, lineNo>>

CallSeparateInternalProcessing ==
  Returns("separateInternalProcessing", separateInternalProcessing(0))

CallIsToolResultMessage == Returns("isToolResultMessage", isToolResultMessage(At(0)))

CallIsBashToolResult == Returns("isBashToolResult", isBashToolResult(At(0)))

HelperNext ==
  \/ CallSeparateInternalProcessing
  \/ CallIsToolResultMessage
  \/ CallIsBashToolResult

HelperSpec == HelperInit /\ [][HelperNext]_vars

---------------------------------------------------------------------------
(* generateProcessingSummary called on its own: the items of entries[0]    *)
(* are the internalProcessing argument, the two other arguments are drawn  *)
(* at the call and kept with the result.                                   *)

SummaryItemKinds ==
  { Item("tool_use", n, "") : n \in {"Bash", "Read", "Edit", "Grep", ""} }
    \cup { Item("thinking", "", ""), Item("text", "", "") }

SummaryInit ==
  /\ \E c \in UNION { [1..k -> SummaryItemKinds] : k \in 0..MaxSummaryItems } :
       entries = <<Entry("assistant", c, FALSE, "2024-01-15T10:00:00Z")>>
  /\ i = 0
  /\ processedMessages = <<>>
  /\ pc = "call"
  /\ fault = FALSE
  /\ emittedAt = <<>>
  /\ out = NoResult
  /\ lines = <<>>
  /\ lineNo = 0

CallGenerateProcessingSummary ==
  \E r \in 0..MaxSummaryResults, m \in 1..MaxAssistantCount :
    /\ pc = "call"
    /\ out' = [fn |-> "generateProcessingSummary",
               value |-> generateProcessingSummary(ContentRefs(0), Range(1, 1 + r), m),
               toolResultCount |-> r,
               assistantMessageCount |-> m]
    /\ pc' = "returned"
    /\ UNCHANGED <<entries, i, processedMessages, fault, emittedAt, lines, lineNo>>

SummaryNext == CallGenerateProcessingSummary

SummarySpec == SummaryInit /\ [][SummaryNext]_vars

---------------------------------------------------------------------------
(* JsonlParser (src/src/parser.ts).  A line is the record of what          *)
(* JSON.parse makes of it: json is "blank" for a line of white space,      *)
(* "invalid" for a text JSON.parse rejects, "null" for the JSON null and   *)
(* "object" for an object with the fields below; an absent field is ""     *)
(* for a string field and a value of kind "absent" or present = FALSE      *)
(* otherwise.                                                              *)

\* a content value: an array of items, a string, another value, or none
ContentValue(k, items, text) == [kind |-> k, items |-> items, text |-> text]

NoContent == ContentValue("absent", <<>>, "undefined")

LineItemKinds ==
  { Item("text", "", ""), Item("tool_use", "Read", ""), Item("tool_result", "", "toolu_1") }

ContentValues ==
  { ContentValue("array", c, "") :
      c \in UNION { [1..k -> LineItemKinds] : k \in 0..MaxLineContent } }
    \cup { ContentValue("string", <<>>, "Hello!"), ContentValue("string", <<>>, ""),
           ContentValue("other", <<>>, "42"), NoContent }

MessageValue(r, c) == [present |-> TRUE, role |-> r, content |-> c]

NoMessage == [present |-> FALSE, role |-> "", content |-> NoContent]

Line(j, ty, m, r, c, t, s) ==
  [json |-> j, type |-> ty, message |-> m, role |-> r, content |-> c,
   timestamp |-> t, isSidechain |-> s]

BlankLine == Line("blank", "", NoMessage, "", NoContent, NoTimestamp, FALSE)

InvalidLine == Line("invalid", "", NoMessage, "", NoContent, NoTimestamp, FALSE)

NullLine == Line("null", "", NoMessage, "", NoContent, NoTimestamp, FALSE)

\* every object line of the model
ObjectLines ==
  { Line("object", ty, m, r, c, t, FALSE) :
      ty \in {"", "summary", "user", "assistant", "system"},
      m \in {NoMessage} \cup { MessageValue(mr, mc) :
                                 mr \in Roles \cup {""}, mc \in ContentValues },
      r \in Roles \cup {""},
      c \in ContentValues,
      t \in {NoTimestamp, "2024-01-15T10:00:00Z"} }

TextArray == ContentValue("array", <<Item("text", "", "")>>, "")

\* a line as Claude Code writes it
ClaudeCodeLine(ty, r, c, s) ==
  Line("object", ty, MessageValue(r, c), "", NoContent, "2024-01-15T10:00:00Z", s)

\* a line in the format of README.md, "Sample Data Format"
ReadmeLine(r, c) == Line("object", "", NoMessage, r, c, "2024-01-15T10:00:00Z", FALSE)

\* the lines of the files with several lines
SampleLines ==
  { BlankLine, InvalidLine, NullLine,
    ReadmeLine("user", TextArray),
    ReadmeLine("assistant",
               ContentValue("array", <<Item("tool_use", "Read", "")>>, "")),
    ClaudeCodeLine("user", "user", TextArray, FALSE),
    ClaudeCodeLine("assistant", "assistant", TextArray, TRUE),
    ClaudeCodeLine("user", "user", ContentValue("string", <<>>, "Hello!"), FALSE),
    ClaudeCodeLine("assistant", "assistant", ContentValue("array", <<>>, ""), FALSE),
    ClaudeCodeLine("summary", "", NoContent, FALSE),
    ClaudeCodeLine("system", "", NoContent, FALSE),
    Line("object", "user", NoMessage, "user", ContentValue("string", <<>>, "Hello!"),
         NoTimestamp, FALSE) }

\* { type: 'text', text: ... }
TextItem(text) == [type |-> "text", name |-> "", tool_use_id |-> "", text |-> text]

\* what a parse function does: it throws, returns null or returns an entry
Throws == [outcome |-> "throw", entry |-> NoEntry]

Null == [outcome |-> "null", entry |-> NoEntry]

Result(entry) == [outcome |-> "entry", entry |-> entry]

\* JSON.parse(line) returns
parses(line) == line.json # "invalid"

\* the content of the entry parseClaudeCodeEntry builds
claudeCodeContent(content) ==
  IF content.kind = "string" THEN <<TextItem(content.text)>>
  ELSE IF content.kind # "array" THEN <<TextItem(content.text)>>
  ELSE content.items

parseClaudeCodeEntry(data) ==
  IF data.json = "null" THEN Throws
  ELSE IF data.type = "summary"
    THEN Result(Entry("assistant", <<TextItem("Conversation Summary")>>, FALSE, "now"))
  ELSE IF data.type = "user" \/ data.type = "assistant"
    THEN IF ~data.message.present THEN Throws
         ELSE Result(Entry(data.message.role, claudeCodeContent(data.message.content),
                           data.isSidechain, data.timestamp))
  ELSE Null

\* truthiness of a content value
truthy(content) ==
  \/ content.kind = "array"
  \/ content.kind = "other"
  \/ (content.kind = "string" /\ content.text # "")

\* the message parseLegacyEntry copies without looking at it
rawContent(content) == IF content.kind = "array" THEN content.items ELSE content

parseLegacyEntry(data) ==
  IF data.json = "null" THEN Throws
  ELSE IF data.message.present
    THEN Result(Entry(data.message.role, rawContent(data.message.content),
                      FALSE, data.timestamp))
  ELSE IF data.role # "" /\ truthy(data.content)
    THEN Result(Entry(data.role,
                      IF data.content.kind = "array" THEN data.content.items
                      ELSE <<TextItem(data.content.text)>>,
                      FALSE, data.timestamp))
  ELSE Null

\* .filter(line => line.trim() !== '')
nonBlank == SelectSeq(lines, LAMBDA line : line.json # "blank")

\* the line the for...of loop is at
current == nonBlank[lineNo + 1]

ParseInit ==
  /\ \/ \E l \in ObjectLines : lines = <<l>>
     \/ \E n \in 0..MaxLines : lines \in [1..n -> SampleLines]
  /\ entries = <<>>
  /\ lineNo = 0
  /\ pc = "parse"
  /\ i = 0
  /\ processedMessages = <<>>
  /\ fault = FALSE
  /\ emittedAt = <<>>
  /\ out = NoResult

\* the end of one iteration of the for...of loop, with what it returned
Consume(result) ==
  /\ IF result.outcome = "entry"
       THEN /\ entries' = Append(entries, result.entry)
            /\ emittedAt' = Append(emittedAt, lineNo)
       ELSE UNCHANGED <<entries, emittedAt>>
  /\ lineNo' = lineNo + 1
  /\ UNCHANGED <<i, processedMessages, pc, fault, out, lines>>

\* the try block runs to its end
TryClaudeCode ==
  /\ pc = "parse" /\ lineNo < Len(nonBlank)
  /\ parses(current)
  /\ parseClaudeCodeEntry(current).outcome # "throw"
  /\ Consume(parseClaudeCodeEntry(current))

\* parseClaudeCodeEntry threw and the legacy fallback runs to its end
CatchLegacy ==
  /\ pc = "parse" /\ lineNo < Len(nonBlank)
  /\ parses(current)
  /\ parseClaudeCodeEntry(current).outcome = "throw"
  /\ parseLegacyEntry(current).outcome # "throw"
  /\ Consume(parseLegacyEntry(current))

\* JSON.parse threw, or both parse functions did: console.warn
WarnFailed ==
  /\ pc = "parse" /\ lineNo < Len(nonBlank)
  /\ \/ ~parses(current)
     \/ /\ parseClaudeCodeEntry(current).outcome = "throw"
        /\ parseLegacyEntry(current).outcome = "throw"
  /\ Consume(Throws)

\* mutant: the title counts the lines read
titleCountMut == Len(nonBlank)

\* the number in title: `Claude Code Conversation (${entries.length} entries)`
titleCount == Len(entries)

ParseReturn ==
  /\ pc = "parse" /\ ~(lineNo < Len(nonBlank))
  /\ pc' = "parsed"
  /\ out' = [fn |-> "parseString",
             value |-> [entries |-> entries, title |-> titleCount]]
  /\ UNCHANGED <<entries, i, processedMessages, fault, emittedAt, lines, lineNo>>

ParseNext == TryClaudeCode \/ CatchLegacy \/ WarnFailed \/ ParseReturn

ParseSpec == ParseInit /\ [][ParseNext]_vars

---------------------------------------------------------------------------
(* Vocabulary of the properties, stated on the input and the output only.  *)

SeqToSet(s) == { s[x] : x \in 1..Len(s) }

Indices == 0..(length - 1)

ContentOf(k) == At(k).message.content

IsAssistant(k) == k \in Indices /\ At(k).message.role = "assistant"

IsUser(k) == k \in Indices /\ At(k).message.role = "user"

IsToolResultOnly(k) ==
  IsUser(k) /\ \A x \in 1..Len(ContentOf(k)) : ContentOf(k)[x].type = "tool_result"

\* a user entry that is a message of its own
IsGenuineUser(k) == IsUser(k) /\ ~IsToolResultOnly(k)

HasBashUse(k) ==
  \E x \in 1..Len(ContentOf(k)) :
    ContentOf(k)[x].type = "tool_use" /\ ContentOf(k)[x].name = "Bash"

IsShellResult(k) ==
  /\ IsToolResultOnly(k)
  /\ \E x \in 1..Len(ContentOf(k)) :
       ContentOf(k)[x].type = "tool_result" /\ ContentOf(k)[x].tool_use_id # ""

ItemsOfType(k, t) ==
  { <<k, x>> : x \in { y \in 1..Len(ContentOf(k)) : ContentOf(k)[y].type = t } }

HasType(k, t) == ItemsOfType(k, t) # {}

\* the last Text item of entry k, as a set (empty when it has none)
LastText(k) ==
  { r \in ItemsOfType(k, "text") : \A q \in ItemsOfType(k, "text") : q[2] <= r[2] }

\* first index at or after c that is neither assistant nor tool-result-only
RunStop(c) ==
  CHOOSE e \in c..length :
    /\ \A j \in c..(e - 1) : IsAssistant(j) \/ IsToolResultOnly(j)
    /\ e = length \/ ~(IsAssistant(e) \/ IsToolResultOnly(e))

RunAssistants(c) == { j \in c..(RunStop(c) - 1) : IsAssistant(j) }

Groups == 1..Len(processedMessages)

Group(n) == processedMessages[n]

IsRegular(n) == Group(n).type = "regular"
IsBash(n) == Group(n).type = "bash_workflow"
IsProcessing(n) == Group(n).type = "processing_workflow"

\* the entries a group refers to, in the order of its fields
GroupEntries(g) ==
  IF g.type = "regular" THEN <<g.entry>>
  ELSE IF g.type = "bash_workflow"
    THEN <<g.bashInput[1], g.bashOutput>>
           \o (IF g.userComment # Undefined THEN <<g.userComment>> ELSE <<>>)
  ELSE g.assistantMessages \o g.toolResults

RECURSIVE Flatten(_)
Flatten(groups) ==
  IF groups = <<>> THEN <<>>
  ELSE GroupEntries(Head(groups)) \o Flatten(Tail(groups))

\* the cursor at which group n was emitted, and the cursor after it
CursorOf(n) == emittedAt[n]

NextCursor(n) == IF n < Len(processedMessages) THEN CursorOf(n + 1) ELSE i

\* the Entry invariant of the input contract: no entry has an empty content
WellFormed == \A k \in Indices : Len(ContentOf(k)) >= 1

\* every ToolResult item carries the id of the ToolUse it answers
ResultsHaveIds ==
  \A k \in Indices : \A x \in 1..Len(ContentOf(k)) :
    ContentOf(k)[x].type = "tool_result" => ContentOf(k)[x].tool_use_id # ""

\* groupMessages has returned, on an input that satisfies the Entry invariant
Done == pc = "done" /\ WellFormed

---------------------------------------------------------------------------
(* C1  Partition: when groupMessages returns, the entries its groups refer *)
(* to, listed in group order (Regular: entry; ProcessingWorkflow:          *)
(* assistant entries then tool-result entries; ShellWorkflow: invoking     *)
(* entry, output entry, user comment), are the input entries 0..n-1 in     *)
(* input order, each exactly once.                                         *)
C1_Partition == Done => Flatten(processedMessages) = Range(0, length)

(* C2  Shell-pattern precedence: when groupMessages returns, every         *)
(* assistant entry k that holds a Bash ToolUse and is directly followed by *)
(* a tool-result-only user entry is the invoking entry of a bash_workflow  *)
(* group whose output is entry k+1, and is in no processing_workflow       *)
(* (checked on inputs whose ToolResult items all carry an id).             *)
C2_ShellPrecedence ==
  (Done /\ ResultsHaveIds) =>
    \A k \in Indices :
      (IsAssistant(k) /\ HasBashUse(k) /\ IsToolResultOnly(k + 1)) =>
        /\ \E n \in Groups :
             IsBash(n) /\ Group(n).bashInput[1] = k /\ Group(n).bashOutput = k + 1
        /\ \A n \in Groups :
             IsProcessing(n) => k \notin SeqToSet(Group(n).assistantMessages)

---------------------------------------------------------------------------
\* entry k is an assistant entry whose content is exactly one Text item
SingleText(k) ==
  IsAssistant(k) /\ Len(ContentOf(k)) = 1 /\ ContentOf(k)[1].type = "text"

IsRegularGroupOf(k) == \E n \in Groups : IsRegular(n) /\ Group(n).entry = k

InWorkflow(k) ==
  \E n \in Groups :
    /\ IsProcessing(n)
    /\ k \in SeqToSet(Group(n).assistantMessages) \cup SeqToSet(Group(n).toolResults)

(* C3 (as stated)  Single-step collapse: when groupMessages returns, every *)
(* assistant entry made of exactly one Text item that is neither preceded  *)
(* nor followed by a tool-result-only entry is wrapped by a Regular group  *)
(* and is in no ProcessingWorkflow.                                        *)
C3_SingleStepCollapse ==
  Done =>
    \A k \in Indices :
      (SingleText(k) /\ ~IsToolResultOnly(k - 1) /\ ~IsToolResultOnly(k + 1)) =>
        IsRegularGroupOf(k) /\ ~InWorkflow(k)

(* C3 (amended)  ... that is neither preceded nor followed by a            *)
(* tool-result-only entry or by another assistant entry is wrapped by a    *)
(* Regular group and is in no ProcessingWorkflow.                          *)
C3_SingleStepCollapseAlone ==
  Done =>
    \A k \in Indices :
      (/\ SingleText(k)
       /\ ~IsToolResultOnly(k - 1) /\ ~IsToolResultOnly(k + 1)
       /\ ~IsAssistant(k - 1) /\ ~IsAssistant(k + 1)) =>
        IsRegularGroupOf(k) /\ ~InWorkflow(k)

\* [user text, assistant{Text}, user text] has been grouped
C3_Witness ==
  /\ Done
  /\ \E k \in Indices :
       /\ SingleText(k) /\ IsGenuineUser(k - 1) /\ IsGenuineUser(k + 1)
       /\ IsRegularGroupOf(k)

---------------------------------------------------------------------------
\* the branches that can fire at the loop head
EnabledBranches ==
  (IF bashBranch THEN {"bash"} ELSE {})
    \cup (IF runBranch THEN {"run"} ELSE {})
    \cup (IF passBranch THEN {"pass"} ELSE {})

(* C4  Termination: at the loop head with i < length exactly one branch    *)
(* can fire; every iteration leaves the cursor strictly larger than it     *)
(* found it and never beyond length; the loop ends only by the return,     *)
(* which happens only with i >= length.                                    *)
C4_Terminates ==
  /\ i <= length
  /\ \A n \in Groups : CursorOf(n) < NextCursor(n)
  /\ (pc = "loop" /\ i < length) => Cardinality(EnabledBranches) = 1
  /\ pc \in {"loop", "done"}
  /\ pc = "done" => i >= length

\* a full conversation was grouped, through the bash and the pass-through branch
C4_Witness ==
  /\ pc = "done" /\ length >= 3
  /\ \E n \in Groups : IsBash(n)
  /\ \E n \in Groups : IsRegular(n)

---------------------------------------------------------------------------
\* entry k qualifies as the user comment of a shell workflow
IsComment(k) ==
  k < length /\ IsUser(k) /\ ~IsToolResultOnly(k) /\ ~At(k).isSidechain

(* C5  User-comment lookahead: a ShellWorkflow emitted at cursor c has     *)
(* entry c+2 as userComment iff that entry exists, has role user, is not   *)
(* tool-result-only and is not sidechain; then the cursor moves to c+3 and *)
(* no Regular group wraps entry c+2; otherwise userComment is absent and   *)
(* the cursor moves to c+2.                                                *)
C5_UserComment ==
  \A n \in Groups :
    IsBash(n) =>
      LET c == CursorOf(n)
      IN IF IsComment(c + 2)
           THEN /\ Group(n).userComment = c + 2
                /\ NextCursor(n) = c + 3
                /\ ~IsRegularGroupOf(c + 2)
           ELSE /\ Group(n).userComment = Undefined
                /\ NextCursor(n) = c + 2

\* a shell workflow was emitted before a sidechain user entry, which it left alone
C5_Witness ==
  \E n \in Groups :
    /\ IsBash(n)
    /\ IsGenuineUser(CursorOf(n) + 2)
    /\ At(CursorOf(n) + 2).isSidechain
    /\ pc = "done"

---------------------------------------------------------------------------
TextsOf(items) == { r \in SeqToSet(items) : ItemOf(r).type = "text" }

\* the greatest element of a non-empty set of indices
Last(S) == CHOOSE x \in S : \A y \in S : y <= x

(* C6  Multi-entry run: a group emitted at an assistant entry c, not as a  *)
(* shell workflow, whose run holds k >= 2 assistant entries is one         *)
(* ProcessingWorkflow covering the whole run, with k assistantMessages;    *)
(* the Text items of its finalResponse are exactly the last Text item of   *)
(* the last assistant entry, every Text item of the earlier assistant      *)
(* entries is in internalProcessing, and its summary has the clause        *)
(* "k assistant messages".                                                 *)
C6_MultiEntryRun ==
  \A n \in Groups :
    LET c == CursorOf(n)
        k == Cardinality(RunAssistants(c))
    IN (IsAssistant(c) /\ ~IsBash(n) /\ k >= 2) =>
         /\ IsProcessing(n)
         /\ NextCursor(n) = RunStop(c)
         /\ Len(Group(n).assistantMessages) = k
         /\ SeqToSet(Group(n).assistantMessages) = RunAssistants(c)
         /\ TextsOf(Group(n).finalResponse) = LastText(Last(RunAssistants(c)))
         /\ \A j \in RunAssistants(c) \ {Last(RunAssistants(c))} :
              ItemsOfType(j, "text") \subseteq SeqToSet(Group(n).internalProcessing)
         /\ \E x \in 1..Len(Group(n).summary) :
              Group(n).summary[x] = Clause("assistant messages", k, <<>>, 0)

\* a run of two assistant entries, both with a Text item, became one workflow
C6_Witness ==
  \E n \in Groups :
    /\ IsProcessing(n)
    /\ Len(Group(n).assistantMessages) = 2
    /\ \A j \in RunAssistants(CursorOf(n)) : HasType(j, "text")
    /\ WellFormed

---------------------------------------------------------------------------
\* the tool-result-only entries that directly follow entry c
ResultsAfter(c) ==
  { j \in (c + 1)..(length - 1) : \A x \in (c + 1)..j : IsToolResultOnly(x) }

\* the elements of a set of indices, in increasing order
InOrder(S) == SelectSeq(Range(0, length), LAMBDA e : e \in S)

\* the items of entry c that separateInternalProcessing leaves to the reader
FinalItems(c) ==
  SelectSeq(ContentRefs(c),
            LAMBDA r : r \in LastText(c)
                       \/ ItemOf(r).type \notin {"tool_use", "thinking", "text"})

(* C7 (as stated)  Tool-result absorption: a group emitted at an assistant *)
(* entry c that has ToolUse items, not as a shell workflow, and is         *)
(* followed by m >= 1 consecutive tool-result-only entries is a            *)
(* ProcessingWorkflow whose toolResults are exactly those m entries in     *)
(* input order, whose internalProcessing holds every ToolUse item of c and *)
(* whose finalResponse is the last Text item of c; none of the m entries   *)
(* is wrapped by a Regular group (checked on inputs whose ToolResult items  *)
(* all carry an id).                                                       *)
C7_ToolResultAbsorption ==
  \A n \in Groups :
    LET c == CursorOf(n)
    IN (/\ WellFormed /\ ResultsHaveIds /\ IsAssistant(c) /\ ~IsBash(n)
        /\ HasType(c, "tool_use") /\ ResultsAfter(c) # {}) =>
         /\ IsProcessing(n)
         /\ Group(n).toolResults = InOrder(ResultsAfter(c))
         /\ ItemsOfType(c, "tool_use") \subseteq SeqToSet(Group(n).internalProcessing)
         /\ Group(n).finalResponse = SelectSeq(ContentRefs(c), LAMBDA r : r \in LastText(c))
         /\ \A j \in ResultsAfter(c) : ~IsRegularGroupOf(j)

(* C7 (amended)  ... and is followed by m >= 1 consecutive                 *)
(* tool-result-only entries after which its run ends (no further assistant *)
(* entry is collected) is a ProcessingWorkflow whose toolResults are       *)
(* exactly those m entries in input order, whose internalProcessing holds  *)
(* every ToolUse item of c and whose finalResponse is the last Text item   *)
(* of c, if it has one, together with its items that are neither ToolUse,  *)
(* Thinking nor Text, in content order; none of the m entries is wrapped   *)
(* by a Regular group.                                                     *)
C7_ToolResultAbsorptionSingle ==
  \A n \in Groups :
    LET c == CursorOf(n)
    IN (/\ WellFormed /\ IsAssistant(c) /\ ~IsBash(n)
        /\ HasType(c, "tool_use") /\ ResultsAfter(c) # {}
        /\ RunAssistants(c) = {c}) =>
         /\ IsProcessing(n)
         /\ Group(n).toolResults = InOrder(ResultsAfter(c))
         /\ ItemsOfType(c, "tool_use") \subseteq SeqToSet(Group(n).internalProcessing)
         /\ Group(n).finalResponse = FinalItems(c)
         /\ \A j \in ResultsAfter(c) : ~IsRegularGroupOf(j)
         /\ NextCursor(n) = c + 1 + Cardinality(ResultsAfter(c))

\* [assistant{ToolUse, Text}, tool results, tool results] became one workflow
C7_Witness ==
  \E n \in Groups :
    /\ IsProcessing(n)
    /\ Len(Group(n).toolResults) = 2
    /\ Len(Group(n).assistantMessages) = 1
    /\ HasType(CursorOf(n), "tool_use") /\ HasType(CursorOf(n), "text")
    /\ WellFormed

---------------------------------------------------------------------------
(* C8  Pass-through: every group emitted with the cursor at an entry whose *)
(* role is not assistant is the Regular group wrapping that entry, and the *)
(* cursor moves on by exactly 1; at such an entry the loop always emits    *)
(* one.                                                                    *)
C8_PassThrough ==
  /\ \A n \in Groups :
       ~IsAssistant(CursorOf(n)) =>
         /\ Group(n) = [type |-> "regular", entry |-> CursorOf(n)]
         /\ NextCursor(n) = CursorOf(n) + 1
  /\ (pc = "loop" /\ i < length /\ ~IsAssistant(i)) =>
       (passBranch /\ ~bashBranch /\ ~runBranch)

\* a plain user entry, a sidechain user entry and a lone tool-result entry
\* each went through the pass-through branch
C8_Witness ==
  /\ pc = "done"
  /\ \E n \in Groups : IsToolResultOnly(CursorOf(n)) /\ Len(ContentOf(CursorOf(n))) > 0
  /\ \E n \in Groups : IsGenuineUser(CursorOf(n)) /\ At(CursorOf(n)).isSidechain
  /\ \E n \in Groups : IsGenuineUser(CursorOf(n)) /\ ~At(CursorOf(n)).isSidechain

---------------------------------------------------------------------------
(* C9  No fault: on an input in which every entry has at least one content *)
(* item, no iteration reads a property of an out-of-range element          *)
(* (entries[i+1], entries[i+2], assistantMessages[0]): fault stays false   *)
(* and the call never ends by a throw.                                     *)
C9_NoFault == WellFormed => (~fault /\ pc # "thrown")

\* a shell workflow was emitted at the second-to-last position, where the
\* comment lookahead entries[i+2] is out of range
C9_Witness ==
  /\ Done
  /\ \E n \in Groups : IsBash(n) /\ CursorOf(n) = length - 2

---------------------------------------------------------------------------
(* C10  Shell fallback: with the cursor at an assistant entry that holds a *)
(* Bash ToolUse while entry i+1 is missing or is not a shell result, the   *)
(* run-collection branch is the one that fires; the group emitted there is *)
(* a ProcessingWorkflow or a Regular group starting at that entry, never a *)
(* ShellWorkflow, and no fault is raised.                                  *)
C10_ShellFallback ==
  /\ \A n \in Groups :
       LET c == CursorOf(n)
       IN (IsAssistant(c) /\ HasBashUse(c) /\ ~IsShellResult(c + 1)) =>
            /\ ~IsBash(n)
            /\ \/ IsProcessing(n) /\ Group(n).assistantMessages[1] = c
               \/ IsRegular(n) /\ Group(n).entry = c
  /\ (/\ pc = "loop" /\ i < length
      /\ IsAssistant(i) /\ HasBashUse(i) /\ ~IsShellResult(i + 1)) =>
       (runBranch /\ ~bashBranch /\ ~passBranch)
  /\ ~fault /\ pc # "thrown"

\* a Bash ToolUse followed by a genuine user message was collected as a run
C10_Witness ==
  \E n \in Groups :
    /\ HasBashUse(CursorOf(n)) /\ IsGenuineUser(CursorOf(n) + 1)
    /\ IsProcessing(n)
    /\ Done

---------------------------------------------------------------------------
\* the timestamp a group must carry when it is stamped from entry k
StampOf(k) == IF At(k).timestamp = NoTimestamp THEN "" ELSE At(k).timestamp

(* C11  Group timestamp: every ShellWorkflow carries the timestamp of the  *)
(* assistant entry at the cursor and every ProcessingWorkflow that of the  *)
(* first collected assistant entry (the entry at the cursor); when that    *)
(* entry has no timestamp the group's timestamp is the empty string, and   *)
(* no fault occurs.                                                        *)
C11_GroupTimestamp ==
  /\ \A n \in Groups :
       /\ IsBash(n) => Group(n).timestamp = StampOf(CursorOf(n))
       /\ IsProcessing(n) =>
            /\ Group(n).assistantMessages[1] = CursorOf(n)
            /\ Group(n).timestamp = StampOf(Group(n).assistantMessages[1])
  /\ ~fault /\ pc # "thrown"

\* a shell workflow and a processing workflow were stamped from entries
\* without a timestamp
C11_Witness ==
  /\ pc = "done"
  /\ \E n \in Groups :
       IsBash(n) /\ At(CursorOf(n)).timestamp = NoTimestamp /\ Group(n).timestamp = ""
  /\ \E n \in Groups :
       IsProcessing(n) /\ At(CursorOf(n)).timestamp = NoTimestamp
         /\ Group(n).timestamp = ""

---------------------------------------------------------------------------
\* the helper fn has returned from its call on entries[0]
Returned(fn) == pc = "returned" /\ out.fn = fn

\* the items of entry k that are neither Text nor internal, in content order
NonTextFinalItems(k) ==
  SelectSeq(ContentRefs(k),
            LAMBDA r : ItemOf(r).type \notin {"tool_use", "thinking", "text"})

(* C12  For an assistant entry with no Text item, separateInternalProcessing *)
(* returns (it never fails) a finalResponse made only of that entry's      *)
(* non-text, non-internal items in content order, possibly empty, and all  *)
(* its ToolUse and Thinking items are in internalProcessing.               *)
C12_NoTextSeparation ==
  (pc = "returned" /\ IsAssistant(0) /\ ~HasType(0, "text")) =>
    /\ ~fault
    /\ out.fn = "separateInternalProcessing" =>
         /\ out.value.finalResponse = NonTextFinalItems(0)
         /\ ItemsOfType(0, "tool_use") \cup ItemsOfType(0, "thinking")
              = SeqToSet(out.value.internalProcessing)

\* the helper returned for an assistant entry without Text that has an
\* Image beside a ToolUse and a Thinking item
C12_Witness ==
  /\ Returned("separateInternalProcessing")
  /\ IsAssistant(0) /\ ~HasType(0, "text")
  /\ HasType(0, "image") /\ HasType(0, "tool_use") /\ HasType(0, "thinking")
  /\ Len(out.value.finalResponse) = 1

---------------------------------------------------------------------------
\* group n is a workflow of several assistant entries one of which, not the
\* last, has an item that is neither Text nor internal
PushesNonText(n) ==
  /\ IsProcessing(n)
  /\ \E x \in 1..(Len(Group(n).assistantMessages) - 1) :
       NonTextFinalItems(Group(n).assistantMessages[x]) # <<>>

(* C13  groupMessages never mutates its input: no step of a call changes   *)
(* the entry sequence, an entry's fields or an entry's content list, also  *)
(* not when earlier entries' non-text items are pushed into a              *)
(* final-response list.                                                    *)
C13_InputUnchanged == [][entries' = entries]_vars

\* a call has returned during which an earlier entry's Image was pushed
\* into the final-response list
C13_Witness == Done /\ \E n \in Groups : PushesNonText(n)

---------------------------------------------------------------------------
\* every content item of entry k has type tool_result
AllToolResults(k) == Cardinality(ItemsOfType(k, "tool_result")) = Len(ContentOf(k))

(* C14  isToolResultMessage(entry) is true if and only if the entry's role *)
(* is user and every content item has type tool_result; an entry mixing    *)
(* tool_result with text is not tool-result-only, and no assistant entry   *)
(* is tool-result-only.                                                    *)
C14_ToolResultOnly ==
  Returned("isToolResultMessage") =>
    /\ out.value = (At(0).message.role = "user" /\ AllToolResults(0))
    /\ (HasType(0, "tool_result") /\ HasType(0, "text")) => out.value = FALSE
    /\ At(0).message.role = "assistant" => out.value = FALSE

\* the helper answered true for a user entry of several tool results, and
\* false for a user entry mixing a tool result with text
C14_Witness ==
  /\ Returned("isToolResultMessage")
  /\ At(0).message.role = "user"
  /\ HasType(0, "tool_result")
  /\ Len(ContentOf(0)) >= 2
  /\ out.value = ~HasType(0, "text")

---------------------------------------------------------------------------
\* the tool_use_id values of the tool_result items of entry k
ResultIds(k) == { ItemOf(r).tool_use_id : r \in ItemsOfType(k, "tool_result") }

---------------------------------------------------------------------------
\* parseString has returned
Parsed == pc = "parsed"

\* the positions (0-based) of the non-blank lines
LineNumbers == 0..(Len(nonBlank) - 1)

\* line p is in the format of the README sample: top-level role and
\* content array, no type
IsReadmeLine(p) ==
  /\ nonBlank[p + 1].json = "object"
  /\ nonBlank[p + 1].type = ""
  /\ ~nonBlank[p + 1].message.present
  /\ nonBlank[p + 1].role \in Roles
  /\ nonBlank[p + 1].content.kind = "array"
  /\ nonBlank[p + 1].content.items # <<>>

\* line p is a user or assistant record as Claude Code writes it
IsClaudeCodeLine(p) ==
  /\ nonBlank[p + 1].json = "object"
  /\ nonBlank[p + 1].type \in Roles
  /\ nonBlank[p + 1].message.present
  /\ nonBlank[p + 1].message.role = nonBlank[p + 1].type
  /\ nonBlank[p + 1].message.content.kind \in {"array", "string"}
  /\ nonBlank[p + 1].role = ""
  /\ nonBlank[p + 1].content = NoContent
  /\ nonBlank[p + 1].timestamp # NoTimestamp

\* parseString has returned from a file of well-formed lines only
ParsedClean ==
  Parsed /\ \A p \in LineNumbers :
    IsClaudeCodeLine(p) \/ (IsReadmeLine(p) /\ nonBlank[p + 1].timestamp # NoTimestamp)

\* the entries pushed while the loop was at line p
EntriesOfLine(p) == { n \in 1..Len(entries) : emittedAt[n] = p }

(* C17  A JSONL line in the README's sample format (top-level role and     *)
(* content, no type) is decoded by parseString into one conversation entry *)
(* with that role and that content, in line order.                         *)
C17_ReadmeFormat ==
  ParsedClean =>
    /\ \A p \in LineNumbers : IsReadmeLine(p) =>
         \E n \in 1..Len(entries) :
           /\ EntriesOfLine(p) = {n}
           /\ entries[n].message.role = nonBlank[p + 1].role
           /\ entries[n].message.content = nonBlank[p + 1].content.items
    /\ \A n \in 1..(Len(entries) - 1) : emittedAt[n] < emittedAt[n + 1]

(* C18  Every entry parseString hands over has a content list with at      *)
(* least one item: string and non-array content values are wrapped into a  *)
(* one-item text list, and no entry with zero content items is returned.   *)
C18_NonEmptyContent ==
  ParsedClean => \A n \in 1..Len(entries) : Len(entries[n].message.content) >= 1

---------------------------------------------------------------------------
\* the entries a workflow absorbed
Absorbed(n) ==
  SeqToSet(Group(n).assistantMessages) \cup SeqToSet(Group(n).toolResults)

\* a sub-agent message: a sidechain user entry that is not tool-result-only
IsSubAgent(k) == IsGenuineUser(k) /\ At(k).isSidechain

(* C19 (as stated)  Run collection never absorbs a sidechain entry: no     *)
(* sidechain-flagged entry following the start of a run appears in a       *)
(* ProcessingWorkflow's assistantMessages or toolResults.                  *)
C19_NoSidechainAbsorbed ==
  Done =>
    \A n \in Groups : IsProcessing(n) =>
      \A e \in Absorbed(n) : e > CursorOf(n) => ~At(e).isSidechain

(* C19 (amended)  Run collection never absorbs a sub-agent message: the    *)
(* run started at an assistant entry extends over the following entries    *)
(* that are assistant or tool-result-only, whatever their sidechain flag,  *)
(* and stops at the first user entry that is not tool-result-only (a       *)
(* genuine user message or a sub-agent message), so a ProcessingWorkflow   *)
(* holds exactly that run and no user entry with other content.            *)
C19_RunStopsAtUserMessage ==
  pc = "done" =>
    \A n \in Groups : IsProcessing(n) =>
      /\ Absorbed(n) = CursorOf(n)..(RunStop(CursorOf(n)) - 1)
      /\ NextCursor(n) = RunStop(CursorOf(n))
      /\ NextCursor(n) < length => IsGenuineUser(NextCursor(n))
      /\ \A e \in Absorbed(n) : ~IsGenuineUser(e) /\ ~IsSubAgent(e)

\* a run absorbed a sidechain assistant entry and stopped at a sub-agent
\* message
C19_Witness ==
  /\ Done
  /\ \E n \in Groups :
       /\ IsProcessing(n)
       /\ \E e \in SeqToSet(Group(n).assistantMessages) :
            e > CursorOf(n) /\ At(e).isSidechain
       /\ NextCursor(n) < length /\ IsSubAgent(NextCursor(n))

(* C20  Earlier-entry non-text preservation: in a ProcessingWorkflow built *)
(* from k >= 2 assistant entries, every non-text, non-internal item (e.g.  *)
(* Image) of the first k-1 entries is present in the group's               *)
(* finalResponse, before the last entry's own final-response items.        *)
C20_EarlierNonTextKept ==
  Done =>
    \A n \in Groups : (IsProcessing(n) /\ Len(Group(n).assistantMessages) >= 2) =>
      LET asst == Group(n).assistantMessages
          final == Group(n).finalResponse
      IN \A x \in 1..(Len(asst) - 1) :
           \A r \in SeqToSet(NonTextFinalItems(asst[x])) :
             \E a \in 1..Len(final) :
               /\ final[a] = r
               /\ \A b \in 1..Len(final) : final[b][1] = asst[Len(asst)] => a < b

---------------------------------------------------------------------------
\* the references of sequence s are in strictly increasing content position
Ascending(s) == \A a, b \in 1..Len(s) : a < b => s[a][2] < s[b][2]

(* C21  Content split rule of separateInternalProcessing: for every        *)
(* assistant entry each content item lands in exactly one of the two       *)
(* outputs; the last Text item goes to finalResponse, every ToolUse, every *)
(* Thinking and every other Text item to internalProcessing, every         *)
(* remaining item to finalResponse, and each output keeps content order.   *)
C21_SplitRule ==
  (Returned("separateInternalProcessing") /\ IsAssistant(0)) =>
    LET internal == out.value.internalProcessing
        final == out.value.finalResponse
    IN /\ SeqToSet(internal) \cap SeqToSet(final) = {}
       /\ SeqToSet(internal) \cup SeqToSet(final) = SeqToSet(ContentRefs(0))
       /\ Len(internal) + Len(final) = Len(ContentOf(0))
       /\ SeqToSet(internal) =
            ItemsOfType(0, "tool_use") \cup ItemsOfType(0, "thinking")
              \cup (ItemsOfType(0, "text") \ LastText(0))
       /\ LastText(0) \subseteq SeqToSet(final)
       /\ Ascending(internal) /\ Ascending(final)

\* the helper returned for an assistant entry with two Text items and an
\* Image: one Text is internal, the last Text and the Image are final
C21_Witness ==
  /\ Returned("separateInternalProcessing") /\ IsAssistant(0)
  /\ Cardinality(ItemsOfType(0, "text")) = 2
  /\ HasType(0, "image")
  /\ Len(out.value.internalProcessing) = 1
  /\ Len(out.value.finalResponse) = 2

---------------------------------------------------------------------------
\* group n was pushed by the run-collection branch
FromRun(n) == ~IsBash(n) /\ IsAssistant(CursorOf(n))

\* entry k alone gives separateInternalProcessing something internal
HasInternal(k) ==
  \/ HasType(k, "tool_use")
  \/ HasType(k, "thinking")
  \/ Cardinality(ItemsOfType(k, "text")) >= 2

\* the run collected at c accumulates a non-empty internalProcessing
RunHasInternal(c) ==
  \/ \E a \in RunAssistants(c) : HasInternal(a)
  \/ \E a \in RunAssistants(c) :
       HasType(a, "text") /\ \E b \in RunAssistants(c) : a < b

(* C22  Emission rule of the run-collection branch: it emits a             *)
(* ProcessingWorkflow if and only if the accumulated internalProcessing is *)
(* non-empty or more than one assistant entry was collected; otherwise     *)
(* (exactly one assistant entry, zero internal items) it emits a Regular   *)
(* group wrapping that entry; in both cases the cursor moves just past the *)
(* whole collected run.                                                    *)
C22_EmissionRule ==
  \A n \in Groups : FromRun(n) =>
    LET c == CursorOf(n)
    IN /\ IsProcessing(n) <=>
            (RunHasInternal(c) \/ Cardinality(RunAssistants(c)) > 1)
       /\ IsProcessing(n) =>
            (Group(n).internalProcessing # <<>>) = RunHasInternal(c)
       /\ ~IsProcessing(n) =>
            /\ IsRegular(n) /\ Group(n).entry = c
            /\ RunAssistants(c) = {c} /\ ~RunHasInternal(c)
       /\ NextCursor(n) = RunStop(c)

\* a workflow was emitted for two assistant entries that have nothing
\* internal, and the cursor went past the tool result between them
C22_Witness ==
  /\ Done
  /\ \E n \in Groups :
       /\ FromRun(n) /\ IsProcessing(n)
       /\ Group(n).internalProcessing = <<>>
       /\ Len(Group(n).toolResults) = 1
       /\ NextCursor(n) = CursorOf(n) + 3

---------------------------------------------------------------------------
\* the ToolUse items of entry k in content order, and the names the summary
\* shows for them
ToolUses(k) == SelectSeq(ContentRefs(k), LAMBDA r : ItemOf(r).type = "tool_use")

ShownName(r) == IF ItemOf(r).name = "" THEN "Unknown" ELSE ItemOf(r).name

DistinctNames(k) == { ShownName(r) : r \in ItemsOfType(k, "tool_use") }

\* how often the name occurs, and the content position of its first use
Occurrences(k, nm) == Cardinality({ r \in ItemsOfType(k, "tool_use") : ShownName(r) = nm })

FirstSeen(k, nm) ==
  CHOOSE x \in 1..Len(ContentOf(k)) :
    /\ <<k, x>> \in ItemsOfType(k, "tool_use") /\ ShownName(<<k, x>>) = nm
    /\ \A y \in 1..(x - 1) :
         <<k, y>> \in ItemsOfType(k, "tool_use") => ShownName(<<k, y>>) # nm

\* the clauses of the summary that are tool clauses
ToolClauses(summary) == SelectSeq(summary, LAMBDA c : c.noun \in {"tool", "tools"})

(* C23  Summary tool clause: when internalProcessing holds at least one    *)
(* ToolUse, the clause states the total ToolUse count and lists at most    *)
(* the first 3 distinct tool names in first-seen order, each written as    *)
(* name when it occurs once and name(count) when it recurs; "+N more" is   *)
(* appended exactly when there are more than 3 distinct names, with        *)
(* N = distinct name count - 3.                                            *)
C23_ToolClause ==
  (Returned("generateProcessingSummary") /\ HasType(0, "tool_use")) =>
    /\ Len(ToolClauses(out.value)) = 1
    /\ LET clause == ToolClauses(out.value)[1]
           distinct == Cardinality(DistinctNames(0))
       IN /\ clause.count = Len(ToolUses(0))
          /\ Len(clause.tools) = (IF distinct < 3 THEN distinct ELSE 3)
          /\ \A x \in 1..Len(clause.tools) :
               /\ clause.tools[x].name \in DistinctNames(0)
               /\ Cardinality({ d \in DistinctNames(0) :
                     FirstSeen(0, d) < FirstSeen(0, clause.tools[x].name) }) = x - 1
               /\ clause.tools[x].suffix =
                    (IF Occurrences(0, clause.tools[x].name) > 1
                       THEN Occurrences(0, clause.tools[x].name) ELSE 0)
          /\ clause.more = (IF distinct > 3 THEN distinct - 3 ELSE 0)

\* the summary of five tool calls with four distinct names, one recurring:
\* three names shown, one of them with its count, and "+1 more"
C23_Witness ==
  /\ Returned("generateProcessingSummary")
  /\ Len(ToolUses(0)) = 5
  /\ Cardinality(DistinctNames(0)) = 4
  /\ ToolClauses(out.value)[1].more = 1
  /\ \E x \in 1..3 : ToolClauses(out.value)[1].tools[x].suffix = 2

---------------------------------------------------------------------------
\* the place of a clause in the fixed order of the summary, by its noun
ClauseRank(noun) ==
  CASE noun = "assistant messages" -> 1
    [] noun \in {"thinking step", "thinking steps"} -> 2
    [] noun \in {"tool", "tools"} -> 3
    [] noun \in {"intermediate response", "intermediate responses"} -> 4
    [] noun \in {"result", "results"} -> 5
    [] OTHER -> 0

\* the summary has exactly one clause of this rank, with this count
HasClause(summary, rank, count) ==
  /\ Cardinality({ x \in 1..Len(summary) : ClauseRank(summary[x].noun) = rank }) = 1
  /\ \A x \in 1..Len(summary) :
       ClauseRank(summary[x].noun) = rank => summary[x].count = count

NoClause(summary, rank) ==
  \A x \in 1..Len(summary) : ClauseRank(summary[x].noun) # rank

\* a clause of this rank is there exactly when count exceeds least
ClauseIff(summary, rank, count, least) ==
  IF count > least THEN HasClause(summary, rank, count) ELSE NoClause(summary, rank)

SingularNouns == {"thinking step", "tool", "intermediate response", "result"}

IsFallback(summary) == summary = <<Clause("Processing steps", 0, <<>>, 0)>>

(* C24  Summary clause structure: generateProcessingSummary emits, in this *)
(* fixed order, an assistant-count clause iff assistantMessageCount > 1, a *)
(* thinking clause iff thinking count > 0, a tool clause iff tool count    *)
(* > 0, an intermediate-text clause iff internal text count > 0 and a      *)
(* results clause iff toolResults is non-empty; each count clause uses the *)
(* singular noun for 1 and the plural otherwise; the result is             *)
(* "Processing steps" if and only if no clause was produced.               *)
C24_ClauseStructure ==
  Returned("generateProcessingSummary") =>
    LET summary == out.value
        thinking == Cardinality(ItemsOfType(0, "thinking"))
        tools == Cardinality(ItemsOfType(0, "tool_use"))
        texts == Cardinality(ItemsOfType(0, "text"))
        none == /\ out.assistantMessageCount <= 1 /\ thinking = 0 /\ tools = 0
                /\ texts = 0 /\ out.toolResultCount = 0
    IN /\ IsFallback(summary) <=> none
       /\ ~none =>
            /\ \A x \in 1..Len(summary) : ClauseRank(summary[x].noun) # 0
            /\ \A x, y \in 1..Len(summary) :
                 x < y => ClauseRank(summary[x].noun) < ClauseRank(summary[y].noun)
            /\ ClauseIff(summary, 1, out.assistantMessageCount, 1)
            /\ ClauseIff(summary, 2, thinking, 0)
            /\ ClauseIff(summary, 3, tools, 0)
            /\ ClauseIff(summary, 4, texts, 0)
            /\ ClauseIff(summary, 5, out.toolResultCount, 0)
            /\ \A x \in 1..Len(summary) :
                 ClauseRank(summary[x].noun) > 1 =>
                   (summary[x].noun \in SingularNouns <=> summary[x].count = 1)

\* a summary with all five clauses, singular and plural nouns among them
C24_Witness ==
  /\ Returned("generateProcessingSummary")
  /\ Len(out.value) = 5
  /\ \E x \in 1..5 : out.value[x].noun = "thinking step"
  /\ \E x \in 1..5 : out.value[x].noun = "tools"
  /\ \E x \in 1..5 : out.value[x].noun = "results"

---------------------------------------------------------------------------
\* the number of lines of the file that are not blank
NonBlankCount == Cardinality({ k \in 1..Len(lines) : lines[k].json # "blank" })

\* line p is a record of Claude Code: a summary, or a user or assistant
\* record with its message
IsRecord(p) ==
  /\ nonBlank[p + 1].json = "object"
  /\ \/ nonBlank[p + 1].type = "summary"
     \/ nonBlank[p + 1].type \in Roles /\ nonBlank[p + 1].message.present

\* line p is no JSON, or JSON that is a record of neither format
IsUnrecognised(p) ==
  \/ nonBlank[p + 1].json \in {"invalid", "null"}
  \/ /\ nonBlank[p + 1].type \notin {"summary", "user", "assistant"}
     /\ nonBlank[p + 1].role = ""
     /\ ~nonBlank[p + 1].message.present

---------------------------------------------------------------------------
\* the indices consumed by the iteration that pushed group n
Consumed(n) == CursorOf(n)..(NextCursor(n) - 1)

(* C26  Cursor coverage: the index ranges consumed by successive           *)
(* iterations are non-empty, contiguous and disjoint and, once the call    *)
(* has returned, their union is exactly 0..n-1; each iteration emits       *)
(* exactly one group, so there are at most n groups, empty input yields an *)
(* empty group list, the cursor never exceeds n, and the first consumed    *)
(* index of group g is strictly smaller than that of group g+1.            *)
C26_CursorCoverage ==
  /\ i \in 0..length
  /\ Len(emittedAt) = Len(processedMessages)
  /\ Len(processedMessages) <= length
  /\ \A n \in Groups :
       /\ Consumed(n) # {}
       /\ \A m \in Groups : m # n => Consumed(m) \cap Consumed(n) = {}
       /\ n + 1 \in Groups => CursorOf(n) < CursorOf(n + 1)
       /\ \A e \in SeqToSet(GroupEntries(Group(n))) : e \in Consumed(n)
  /\ UNION { Consumed(n) : n \in Groups } = 0..(i - 1)
  /\ pc = "done" =>
       /\ UNION { Consumed(n) : n \in Groups } = Indices
       /\ length = 0 => processedMessages = <<>>

\* a call has returned whose three iterations consumed one entry each
C26_Witness ==
  /\ pc = "done"
  /\ length = 3
  /\ Len(processedMessages) = 3
  /\ \A n \in Groups : Consumed(n) = {n - 1}

---------------------------------------------------------------------------
(* C27  The fallback summary "Processing steps" is unreachable through     *)
(* segmentation: every ProcessingWorkflow emitted by groupMessages has a   *)
(* summary of at least one real clause, because a workflow is only emitted *)
(* with a non-empty internalProcessing (which holds only ToolUse, Thinking *)
(* or Text items) or with more than one assistant entry.                   *)
C27_NoFallbackSummary ==
  \A n \in Groups : IsProcessing(n) =>
    /\ ~IsFallback(Group(n).summary)
    /\ Len(Group(n).summary) >= 1
    /\ \A x \in 1..Len(Group(n).summary) : ClauseRank(Group(n).summary[x].noun) # 0
    /\ \/ Group(n).internalProcessing # <<>>
       \/ Len(Group(n).assistantMessages) > 1
    /\ \A r \in SeqToSet(Group(n).internalProcessing) :
         ItemOf(r).type \in {"tool_use", "thinking", "text"}

\* a workflow without internal processing, whose summary is the assistant
\* count alone
C27_Witness ==
  /\ pc = "done"
  /\ \E n \in Groups :
       /\ IsProcessing(n)
       /\ Group(n).internalProcessing = <<>>
       /\ Len(Group(n).summary) = 1
       /\ Group(n).summary[1].noun = "assistant messages"

---------------------------------------------------------------------------
(* C28  Group adjacency: a group produced by the run-collection branch (a  *)
(* ProcessingWorkflow, or a Regular group wrapping an assistant entry) is  *)
(* either the last group or is immediately followed by a Regular group     *)
(* wrapping a user entry that is not tool-result-only; it is never         *)
(* immediately followed by another ProcessingWorkflow, a ShellWorkflow, an *)
(* assistant Regular group or a lone tool-result Regular group.            *)
C28_GroupAdjacency ==
  pc = "done" =>
    \A n \in Groups : (FromRun(n) /\ n + 1 \in Groups) =>
      /\ IsRegular(n + 1)
      /\ IsGenuineUser(Group(n + 1).entry)
      /\ Group(n + 1).entry = NextCursor(n)

\* a workflow that absorbed a tool result is followed by the Regular group
\* of a user message
C28_Witness ==
  /\ Done
  /\ \E n \in Groups :
       /\ IsProcessing(n) /\ Group(n).toolResults # <<>>
       /\ n + 1 \in Groups
       /\ IsRegular(n + 1) /\ IsGenuineUser(Group(n + 1).entry)

---------------------------------------------------------------------------
\* the entry indices of sequence s are strictly increasing
Increasing(s) == \A a, b \in 1..Len(s) : a < b => s[a] < s[b]

(* C29  Content typing of a ProcessingWorkflow: internalProcessing         *)
(* contains only ToolUse, Thinking and Text items; finalResponse contains  *)
(* no ToolUse, no Thinking and at most one Text item; assistantMessages is *)
(* non-empty with the entry at the cursor first; assistantMessages and     *)
(* toolResults each keep the input order of their entries, and their       *)
(* lengths sum to the number of entries consumed.                          *)
C29_WorkflowTyping ==
  \A n \in Groups : IsProcessing(n) =>
    LET g == Group(n)
    IN /\ \A r \in SeqToSet(g.internalProcessing) :
            ItemOf(r).type \in {"tool_use", "thinking", "text"}
       /\ \A r \in SeqToSet(g.finalResponse) :
            ItemOf(r).type \notin {"tool_use", "thinking"}
       /\ Cardinality({ x \in 1..Len(g.finalResponse) :
                          ItemOf(g.finalResponse[x]).type = "text" }) <= 1
       /\ g.assistantMessages # <<>>
       /\ g.assistantMessages[1] = CursorOf(n)
       /\ \A e \in SeqToSet(g.assistantMessages) : IsAssistant(e)
       /\ \A e \in SeqToSet(g.toolResults) : IsToolResultOnly(e)
       /\ Increasing(g.assistantMessages)
       /\ Increasing(g.toolResults)
       /\ Len(g.assistantMessages) + Len(g.toolResults) = NextCursor(n) - CursorOf(n)

\* a workflow of one assistant entry and the two tool results after it
C29_Witness ==
  /\ Done
  /\ \E n \in Groups :
       /\ IsProcessing(n)
       /\ Len(Group(n).toolResults) = 2
       /\ NextCursor(n) - CursorOf(n) = 3

---------------------------------------------------------------------------
\* the content item behind the reference is a ToolUse named exactly "Bash"
IsShellInvocation(r) == ItemOf(r).type = "tool_use" /\ ItemOf(r).name = "Bash"

(* C30  Shell invocation selection: in every emitted ShellWorkflow,        *)
(* bashInput is the first content item of the assistant entry at the       *)
(* cursor, in content order, that is a ToolUse whose name is exactly       *)
(* "Bash"; bashOutput is entry[i+1]; a ToolUse named "bash" never triggers *)
(* a ShellWorkflow.                                                        *)
C30_ShellInvocation ==
  \A n \in Groups : IsBash(n) =>
    LET c == CursorOf(n)
        input == Group(n).bashInput
    IN /\ IsAssistant(c)
       /\ input[1] = c
       /\ input[2] \in 1..Len(ContentOf(c))
       /\ IsShellInvocation(input)
       /\ \A q \in 1..(input[2] - 1) : ~IsShellInvocation(<<c, q>>)
       /\ Group(n).bashOutput = c + 1
       /\ c + 1 < length

\* a shell workflow whose cursor entry has a ToolUse named "bash" before the
\* one named "Bash": the second item is the invocation
C30_Witness ==
  /\ Done
  /\ \E n \in Groups :
       /\ IsBash(n)
       /\ Group(n).bashInput[2] = 2
       /\ ItemOf(<<CursorOf(n), 1>>).type = "tool_use"
       /\ ItemOf(<<CursorOf(n), 1>>).name = "bash"

====
